---- MODULE Spec2Model ----
(***************************************************************************)
(* Address book of goit-pycore-hw-07: the Field/Phone/Birthday/Record/     *)
(* AddressBook classes (identical in Task_1.py and Task_2.py) and the two  *)
(* command sets built on them (handle_* of Task_1.py, the input_error      *)
(* decorated handlers of Task_2.py).                                       *)
(*                                                                         *)
(* Strings are sequences of characters; a character is a one-token string. *)
(* An optional value (Python None or an object) is a sequence of length 0  *)
(* or 1.                                                                   *)
(***************************************************************************)
EXTENDS Integers, Sequences, FiniteSets, TLC

VARIABLES task, data, last, prev, crashed

vars == <<task, data, last, prev, crashed>>

-----------------------------------------------------------------------------
(* Bounds of the model *)

\* longest phone list a record is grown to
MaxPhones == 2

\* most entries the directory is grown to
MaxEntries == 3

\* number of digits of a phone, the count of the pattern \d{10}
PhoneDigits == 10

\* the window of a birthdays query that names no number of days
DefaultDays == 7

-----------------------------------------------------------------------------
(* Characters and strings *)

AsciiDigits == {"0", "1", "2", "3", "4", "5", "6", "7", "8", "9"}

\* ARABIC-INDIC DIGIT THREE, a decimal digit (category Nd) outside ASCII
ArabicThree == "U+0663"

\* what \d matches in a str pattern, and what int() accepts as a digit
IsDecimal(c) == c \in AsciiDigits \cup {ArabicThree}

DigitValue(c) ==
  CASE c = "0" -> 0 [] c = "1" -> 1 [] c = "2" -> 2 [] c = "3" -> 3
    [] c = "4" -> 4 [] c = "5" -> 5 [] c = "6" -> 6 [] c = "7" -> 7
    [] c = "8" -> 8 [] c = "9" -> 9 [] c = ArabicThree -> 3

RECURSIVE IntOfDigits(_, _)
\* the number written by the digits s, after the digits already read as acc
IntOfDigits(s, acc) ==
  IF s = <<>> THEN acc
  ELSE IntOfDigits(Tail(s), acc * 10 + DigitValue(Head(s)))

AllDecimal(s) == \A i \in 1..Len(s) : IsDecimal(s[i])

None == <<>>
Some(x) == <<x>>

-----------------------------------------------------------------------------
(* Phone *)

RECURSIVE MatchDigits(_, _, _)
\* the regular expression \d{n} applied to s at position i: the position
\* after the match, or 0 when it does not match
MatchDigits(s, i, n) ==
  IF n = 0 THEN i
  ELSE IF i > Len(s) THEN 0
  ELSE IF IsDecimal(s[i]) THEN MatchDigits(s, i + 1, n - 1)
  ELSE 0

\* re.match in place of re.fullmatch: a prefix of ten digits is enough
Phone_validate_prefix(value) == MatchDigits(value, 1, PhoneDigits) # 0

\* Phone._validate: re.fullmatch(r"\d{10}", value) is not None
Phone_validate(value) == MatchDigits(value, 1, PhoneDigits) = Len(value) + 1

-----------------------------------------------------------------------------
(* Dates *)

IsLeap(y) == (y % 4 = 0 /\ y % 100 # 0) \/ y % 400 = 0

DaysInMonth(y, m) ==
  IF m = 2 THEN (IF IsLeap(y) THEN 29 ELSE 28)
  ELSE IF m \in {4, 6, 9, 11} THEN 30 ELSE 31

RECURSIVE DaysBeforeMonth(_, _)
DaysBeforeMonth(y, m) ==
  IF m = 1 THEN 0 ELSE DaysBeforeMonth(y, m - 1) + DaysInMonth(y, m - 1)

DaysBeforeYear(y) ==
  (y - 1) * 365 + (y - 1) \div 4 - (y - 1) \div 100 + (y - 1) \div 400

\* datetime.toordinal
ToOrdinal(dt) == DaysBeforeYear(dt.year) + DaysBeforeMonth(dt.year, dt.month) + dt.day

ValidDate(y, m, d) ==
  /\ y \in 1..9999
  /\ m \in 1..12
  /\ d \in 1..DaysInMonth(y, m)

\* a datetime: a calendar day and the time of day, tod = 0 being midnight
DateTime(y, m, d, t) == [year |-> y, month |-> m, day |-> d, tod |-> t]

\* datetime comparison a <= b
DtLe(a, b) ==
  \/ ToOrdinal(a) < ToOrdinal(b)
  \/ ToOrdinal(a) = ToOrdinal(b) /\ a.tod <= b.tod

\* a <= b + timedelta(days=n)
DtLePlus(a, b, n) ==
  \/ ToOrdinal(a) < ToOrdinal(b) + n
  \/ ToOrdinal(a) = ToOrdinal(b) + n /\ a.tod <= b.tod

\* datetime.replace(year=y): None stands for the ValueError of a day that
\* the month of year y does not have
ReplaceYear(dt, y) ==
  IF ValidDate(y, dt.month, dt.day) THEN Some([dt EXCEPT !.year = y]) ELSE None

\* the %d directive of strptime: 3[0-1]|[1-2]\d|0[1-9]|[1-9]| [1-9]
MatchDay(s) ==
  \/ Len(s) = 2 /\ s[1] = "3" /\ s[2] \in {"0", "1"}
  \/ Len(s) = 2 /\ s[1] \in {"1", "2"} /\ IsDecimal(s[2])
  \/ Len(s) = 2 /\ s[1] = "0" /\ s[2] \in AsciiDigits \ {"0"}
  \/ Len(s) = 1 /\ s[1] \in AsciiDigits \ {"0"}
  \/ Len(s) = 2 /\ s[1] = " " /\ s[2] \in AsciiDigits \ {"0"}

\* the %m directive of strptime: 1[0-2]|0[1-9]|[1-9]
MatchMonth(s) ==
  \/ Len(s) = 2 /\ s[1] = "1" /\ s[2] \in {"0", "1", "2"}
  \/ Len(s) = 2 /\ s[1] = "0" /\ s[2] \in AsciiDigits \ {"0"}
  \/ Len(s) = 1 /\ s[1] \in AsciiDigits \ {"0"}

\* the %Y directive of strptime: \d\d\d\d
MatchYear(s) == Len(s) = 4 /\ AllDecimal(s)

\* int() of a matched day: the leading blank of " 5" is skipped
DayValue(s) == IF s[1] = " " THEN IntOfDigits(Tail(s), 0) ELSE IntOfDigits(s, 0)

\* datetime.strptime(value, "%d.%m.%Y"): Some(datetime at midnight), or None
\* for the ValueError of a string that does not match or is no calendar day
Strptime(value) ==
  LET splits == { <<i, j>> \in (1..Len(value)) \X (1..Len(value)) :
                    /\ i < j
                    /\ value[i] = "." /\ value[j] = "."
                    /\ MatchDay(SubSeq(value, 1, i - 1))
                    /\ MatchMonth(SubSeq(value, i + 1, j - 1))
                    /\ MatchYear(SubSeq(value, j + 1, Len(value))) }
  IN IF splits = {} THEN None
     ELSE LET ij == CHOOSE x \in splits : TRUE
              d == DayValue(SubSeq(value, 1, ij[1] - 1))
              m == IntOfDigits(SubSeq(value, ij[1] + 1, ij[2] - 1), 0)
              y == IntOfDigits(SubSeq(value, ij[2] + 1, Len(value)), 0)
          IN IF ValidDate(y, m, d) THEN Some(DateTime(y, m, d, 0)) ELSE None

-----------------------------------------------------------------------------
(* Record *)

\* Record.__init__: the name, no phones, no birthday
Record(name) == [name |-> name, phones |-> <<>>, birthday |-> None]

\* index of the first phone of the list whose value is phone, 0 when none
FirstIndex(phones, phone) ==
  IF \E i \in 1..Len(phones) : phones[i] = phone
  THEN CHOOSE i \in 1..Len(phones) :
         /\ phones[i] = phone
         /\ \A j \in 1..(i - 1) : phones[j] # phone
  ELSE 0

\* list.remove of the element at index i
RemoveAt(phones, i) == SubSeq(phones, 1, i - 1) \o SubSeq(phones, i + 1, Len(phones))

\* Record.find_phone: the first phone whose value equals phone, or None
Record_find_phone(rec, phone) ==
  LET i == FirstIndex(rec.phones, phone)
  IN IF i = 0 THEN None ELSE Some(rec.phones[i])

\* an add_phone that appends without validating
Record_add_phone_unchecked(rec, phone) ==
  [exc |-> "", rec |-> [rec EXCEPT !.phones = Append(@, phone)]]

\* Record.add_phone: Phone(phone) raises ValueError before the append
Record_add_phone(rec, phone) ==
  IF Phone_validate(phone)
  THEN [exc |-> "", rec |-> [rec EXCEPT !.phones = Append(@, phone)]]
  ELSE [exc |-> "ValueError", rec |-> rec]

\* a remove_phone that removes every phone of that value
Record_remove_phone_all(rec, phone) ==
  [rec EXCEPT !.phones = SelectSeq(@, LAMBDA p : p # phone)]

\* Record.remove_phone: removes the phone find_phone returns, if any
Record_remove_phone(rec, phone) ==
  LET i == FirstIndex(rec.phones, phone)
  IN IF Record_find_phone(rec, phone) # None
     THEN [rec EXCEPT !.phones = RemoveAt(@, i)]
     ELSE rec

\* Record.edit_phone: the old phone is removed, then add_phone(new_phone)
\* runs on the shortened list and may raise
Record_edit_phone(rec, old_phone, new_phone) ==
  IF Record_find_phone(rec, old_phone) # None
  THEN Record_add_phone(
         [rec EXCEPT !.phones = RemoveAt(@, FirstIndex(@, old_phone))], new_phone)
  ELSE [exc |-> "", rec |-> rec]

\* Record.add_birthday: Birthday(birthday) raises ValueError before the
\* assignment
Record_add_birthday(rec, birthday) ==
  IF Strptime(birthday) # None
  THEN [exc |-> "", rec |-> [rec EXCEPT !.birthday = Strptime(birthday)]]
  ELSE [exc |-> "ValueError", rec |-> rec]

-----------------------------------------------------------------------------
(* AddressBook: self.data is a dict, kept here in insertion order as a     *)
(* sequence of entries [key, rec]                                          *)

KeyIndex(d, key) ==
  IF \E i \in 1..Len(d) : d[i].key = key
  THEN CHOOSE i \in 1..Len(d) :
         /\ d[i].key = key
         /\ \A j \in 1..(i - 1) : d[j].key # key
  ELSE 0

\* name in self.data
Contains(d, key) == KeyIndex(d, key) # 0

\* an add_record that always inserts a new entry
AddressBook_add_record_append(d, record) ==
  Append(d, [key |-> record.name, rec |-> record])

\* AddressBook.add_record: self.data[record.name.value] = record
AddressBook_add_record(d, record) ==
  IF Contains(d, record.name)
  THEN [d EXCEPT ![KeyIndex(d, record.name)] = [key |-> record.name, rec |-> record]]
  ELSE Append(d, [key |-> record.name, rec |-> record])

\* AddressBook.find: self.data.get(name)
AddressBook_find(d, name) ==
  IF Contains(d, name) THEN Some(d[KeyIndex(d, name)].rec) ELSE None

\* AddressBook.delete: del self.data[name] when name is a key
AddressBook_delete(d, name) ==
  IF Contains(d, name)
  THEN SubSeq(d, 1, KeyIndex(d, name) - 1) \o SubSeq(d, KeyIndex(d, name) + 1, Len(d))
  ELSE d

\* the record object that find(name) returned, after it was mutated in place
Mutated(d, name, rec) == [d EXCEPT ![KeyIndex(d, name)].rec = rec]

-----------------------------------------------------------------------------
(* AddressBook.get_upcoming_birthdays *)

RECURSIVE UpcomingLoop(_, _, _, _)
\* the for loop over self.data.values(): entries is what is left to visit,
\* acc the names of the records appended so far
UpcomingLoop(entries, days, today, acc) ==
  IF entries = <<>> THEN [exc |-> "", ret |-> acc]
  ELSE LET record == Head(entries).rec
       IN IF record.birthday = None
          THEN UpcomingLoop(Tail(entries), days, today, acc)
          ELSE LET next_birthday == ReplaceYear(record.birthday[1], today.year)
               IN IF next_birthday = None
                  THEN [exc |-> "ValueError", ret |-> <<>>]
                  ELSE IF /\ DtLe(today, next_birthday[1])
                          /\ DtLePlus(next_birthday[1], today, days)
                       THEN UpcomingLoop(Tail(entries), days, today,
                                         Append(acc, record.name))
                       ELSE UpcomingLoop(Tail(entries), days, today, acc)

RECURSIVE RolloverLoop(_, _, _, _)
\* the loop with a birthday that has passed moved to the next year
RolloverLoop(entries, days, today, acc) ==
  IF entries = <<>> THEN [exc |-> "", ret |-> acc]
  ELSE LET record == Head(entries).rec
       IN IF record.birthday = None
          THEN RolloverLoop(Tail(entries), days, today, acc)
          ELSE LET this_year == ReplaceYear(record.birthday[1], today.year)
                   next_year == ReplaceYear(record.birthday[1], today.year + 1)
               IN IF this_year = None \/ next_year = None
                  THEN [exc |-> "ValueError", ret |-> <<>>]
                  ELSE LET next_birthday ==
                             IF DtLe(today, this_year[1]) THEN this_year[1]
                             ELSE next_year[1]
                       IN IF DtLePlus(next_birthday, today, days)
                          THEN RolloverLoop(Tail(entries), days, today,
                                            Append(acc, record.name))
                          ELSE RolloverLoop(Tail(entries), days, today, acc)

\* get_upcoming_birthdays with the roll-over to the next year
AddressBook_get_upcoming_birthdays_rollover(d, days, today) ==
  RolloverLoop(d, days, today, <<>>)

\* AddressBook.get_upcoming_birthdays(days), today being datetime.now()
AddressBook_get_upcoming_birthdays(d, days, today) ==
  UpcomingLoop(d, days, today, <<>>)

\* int(s): an optional sign and decimal digits, None for the ValueError
IntParse(s) ==
  IF s # <<>> /\ s[1] \in {"-", "+"}
  THEN IF Len(s) > 1 /\ AllDecimal(Tail(s))
       THEN Some((IF s[1] = "-" THEN -1 ELSE 1) * IntOfDigits(Tail(s), 0))
       ELSE None
  ELSE IF s # <<>> /\ AllDecimal(s) THEN Some(IntOfDigits(s, 0)) ELSE None

-----------------------------------------------------------------------------
(* Results of the handlers: exc is the exception that left the handler ("" *)
(* when it returned), msg the text returned (str(e) for an exception), d   *)
(* the directory afterwards, ret the names listed                          *)

Returned(msg, d, ret) == [exc |-> "", msg |-> msg, d |-> d, ret |-> ret]
Raised(exc, msg, d) == [exc |-> exc, msg |-> msg, d |-> d, ret |-> <<>>]

MsgInvalidPhone == "Invalid phone number format. It should be 10 digits."
MsgInvalidDate == "Invalid date format. Use DD.MM.YYYY"
MsgDayOutOfRange == "day is out of range for month"
MsgInvalidLiteral == "invalid literal for int() with base 10"
MsgUnpack == "not enough values to unpack / too many values to unpack"
MsgIndex == "list index out of range"
MsgNotFound == "Contact {name} not found."
MsgNoUpcoming == "No upcoming birthdays within the next week."
MsgUpcoming == "Upcoming birthdays:"
MsgEmpty == "Address book is empty."
MsgContacts == "Contacts in address book:"
MsgPhoneUpdated == "Phone number updated for contact {name}."

Keys(d) == [i \in 1..Len(d) |-> d[i].key]

\* the result lines of a birthdays query that returned
UpcomingText(d, r) ==
  IF r.ret = <<>> THEN Returned(MsgNoUpcoming, d, <<>>)
  ELSE Returned(MsgUpcoming, d, r.ret)

-----------------------------------------------------------------------------
(* Task_1.py: the handle_* functions *)

handle_add_contact(d, name, phone, birthday) ==
  LET r1 == Record_add_phone(Record(name), phone)
      r2 == IF birthday # <<>> THEN Record_add_birthday(r1.rec, birthday)
            ELSE [exc |-> "", rec |-> r1.rec]
  IN IF r1.exc # "" THEN Returned(MsgInvalidPhone, d, <<>>)
     ELSE IF r2.exc # "" THEN Returned(MsgInvalidDate, d, <<>>)
     ELSE Returned("Contact {name} added successfully.",
                   AddressBook_add_record(d, r2.rec), <<>>)

handle_list_contacts(d) ==
  IF d = <<>> THEN Returned(MsgEmpty, d, <<>>)
  ELSE Returned(MsgContacts, d, Keys(d))

handle_get_contact(d, name) ==
  IF AddressBook_find(d, name) # None
  THEN Returned("Contact name: {name}, phones: {phones}, birthday: {birthday}",
                d, <<name>>)
  ELSE Returned(MsgNotFound, d, <<>>)

handle_remove_contact(d, name) ==
  IF AddressBook_find(d, name) # None
  THEN Returned("Contact {name} removed successfully.",
                AddressBook_delete(d, name), <<>>)
  ELSE Returned(MsgNotFound, d, <<>>)

handle_edit_contact_phone(d, name, old_phone, new_phone) ==
  LET record == AddressBook_find(d, name)
  IN IF record # None
     THEN LET r == Record_edit_phone(record[1], old_phone, new_phone)
          IN IF r.exc # ""
             THEN Returned(MsgInvalidPhone, Mutated(d, name, r.rec), <<>>)
             ELSE Returned(MsgPhoneUpdated, Mutated(d, name, r.rec), <<>>)
     ELSE Returned(MsgNotFound, d, <<>>)

handle_upcoming_birthdays(d, days, today) ==
  LET r == AddressBook_get_upcoming_birthdays(d, days, today)
  IN IF r.exc # "" THEN Raised(r.exc, MsgDayOutOfRange, d)
     ELSE UpcomingText(d, r)

\* main, the birthdays branch: days = int(days) if days else 7, outside any
\* handler, then the handler
main_birthdays(d, days, today) ==
  IF days = <<>> THEN handle_upcoming_birthdays(d, DefaultDays, today)
  ELSE IF IntParse(days) = None THEN Raised("ValueError", MsgInvalidLiteral, d)
  ELSE handle_upcoming_birthdays(d, IntParse(days)[1], today)

-----------------------------------------------------------------------------
(* Task_2.py: the handlers under the input_error decorator *)

\* the decorator: a ValueError becomes the returned text str(e), any other
\* exception leaves the wrapper
input_error(r) == IF r.exc = "ValueError" THEN [r EXCEPT !.exc = ""] ELSE r

add_contact_body(args, d) ==
  IF Len(args) < 2 THEN Raised("ValueError", MsgUnpack, d)
  ELSE LET name == args[1]
           phone == args[2]
           found == AddressBook_find(d, name)
           d1 == IF found = None THEN AddressBook_add_record(d, Record(name)) ELSE d
           message == IF found = None THEN "Contact added." ELSE "Contact updated."
           record == AddressBook_find(d1, name)[1]
       IN IF phone # <<>>
          THEN LET r == Record_add_phone(record, phone)
               IN IF r.exc # "" THEN Raised(r.exc, MsgInvalidPhone, d1)
                  ELSE Returned(message, Mutated(d1, name, r.rec), <<>>)
          ELSE Returned(message, d1, <<>>)

add_contact(args, d) == input_error(add_contact_body(args, d))

change_phone_body(args, d) ==
  IF Len(args) # 3 THEN Raised("ValueError", MsgUnpack, d)
  ELSE LET name == args[1]
           record == AddressBook_find(d, name)
       IN IF record # None
          THEN LET r == Record_edit_phone(record[1], args[2], args[3])
               IN IF r.exc # ""
                  THEN Raised(r.exc, MsgInvalidPhone, Mutated(d, name, r.rec))
                  ELSE Returned(MsgPhoneUpdated, Mutated(d, name, r.rec), <<>>)
          ELSE Returned(MsgNotFound, d, <<>>)

change_phone(args, d) == input_error(change_phone_body(args, d))

show_phone_body(args, d) ==
  IF args = <<>> THEN Raised("IndexError", MsgIndex, d)
  ELSE IF AddressBook_find(d, args[1]) # None
  THEN Returned("{name}'s phones: {phones}", d, <<args[1]>>)
  ELSE Returned(MsgNotFound, d, <<>>)

show_phone(args, d) == input_error(show_phone_body(args, d))

list_contacts_body(args, d) ==
  IF d = <<>> THEN Returned(MsgEmpty, d, <<>>)
  ELSE Returned(MsgContacts, d, Keys(d))

list_contacts(args, d) == input_error(list_contacts_body(args, d))

add_birthday_body(args, d) ==
  IF Len(args) # 2 THEN Raised("ValueError", MsgUnpack, d)
  ELSE LET name == args[1]
           record == AddressBook_find(d, name)
       IN IF record # None
          THEN LET r == Record_add_birthday(record[1], args[2])
               IN IF r.exc # "" THEN Raised(r.exc, MsgInvalidDate, d)
                  ELSE Returned("Birthday added for contact {name}.",
                                Mutated(d, name, r.rec), <<>>)
          ELSE Returned(MsgNotFound, d, <<>>)

add_birthday(args, d) == input_error(add_birthday_body(args, d))

show_birthday_body(args, d) ==
  IF args = <<>> THEN Raised("IndexError", MsgIndex, d)
  ELSE LET record == AddressBook_find(d, args[1])
       IN IF record # None
          THEN IF record[1].birthday # None
               THEN Returned("{name}'s birthday is on {birthday}.", d, <<args[1]>>)
               ELSE Returned("Birthday not set for contact {name}.", d, <<>>)
          ELSE Returned(MsgNotFound, d, <<>>)

show_birthday(args, d) == input_error(show_birthday_body(args, d))

birthdays_body(args, d, today) ==
  IF args # <<>> /\ IntParse(args[1]) = None
  THEN Raised("ValueError", MsgInvalidLiteral, d)
  ELSE LET days == IF args # <<>> THEN IntParse(args[1])[1] ELSE DefaultDays
           r == AddressBook_get_upcoming_birthdays(d, days, today)
       IN IF r.exc # "" THEN Raised(r.exc, MsgDayOutOfRange, d)
          ELSE UpcomingText(d, r)

birthdays(args, d, today) == input_error(birthdays_body(args, d, today))

-----------------------------------------------------------------------------
(* Inputs *)

Alice == <<"A", "l", "i", "c", "e">>
Bob == <<"B", "o", "b">>
Names == {Alice, Bob}

PhoneA == <<"0", "5", "0", "1", "2", "3", "4", "5", "6", "7">>
PhoneB == <<"0", "6", "7", "7", "6", "5", "4", "3", "2", "1">>
PhoneShort == <<"1", "2", "3", "4", "5">>
PhoneLong == <<"0", "5", "0", "1", "2", "3", "4", "5", "6", "7", "8">>
PhoneLetter == <<"0", "5", "0", "1", "2", "3", "4", "5", "a", "7">>
PhoneArabic == <<"0", "5", "0", "1", "2", "3", "4", "5", "6", ArabicThree>>

Day_15_06_1990 == <<"1", "5", ".", "0", "6", ".", "1", "9", "9", "0">>
Day_01_01_1995 == <<"0", "1", ".", "0", "1", ".", "1", "9", "9", "5">>
Day_29_02_2000 == <<"2", "9", ".", "0", "2", ".", "2", "0", "0", "0">>
Day_31_02_2020 == <<"3", "1", ".", "0", "2", ".", "2", "0", "2", "0">>
Day_Iso == <<"1", "9", "9", "0", "-", "0", "6", "-", "1", "5">>

\* what datetime.now() may return: a day, and a time of day that is midnight
\* (0) or later (1)
Instants(days) == { DateTime(x[1], x[2], x[3], t) : x \in days, t \in {0, 1} }

-----------------------------------------------------------------------------
(* State *)
(* task:    which program runs, Task_1.py or Task_2.py                     *)
(* data:    AddressBook.data                                               *)
(* last:    the last call or command: its arguments, the datetime.now() it *)
(*          read, the exception that left it, the text and the names it    *)
(*          returned, whether its name was a key and its phone a phone of  *)
(*          that record before it ran                                      *)
(* prev:    the call before the last one, where calls are recorded         *)
(* crashed: an exception left a command handler and ended the process      *)

NoOp ==
  [op |-> "", args |-> <<>>, now |-> None, exc |-> "", msg |-> "", ret |-> <<>>,
   hadName |-> FALSE, hadPhone |-> FALSE]

Untracked == [NoOp EXCEPT !.op = "untracked"]

HadName(d, args) == args # <<>> /\ \E i \in 1..Len(d) : d[i].key = args[1]

HadPhone(d, args) ==
  /\ Len(args) >= 2
  /\ \E i \in 1..Len(d) :
       /\ d[i].key = args[1]
       /\ \E j \in 1..Len(d[i].rec.phones) : d[i].rec.phones[j] = args[2]

Bounded(d) ==
  /\ Len(d) <= MaxEntries
  /\ \A i \in 1..Len(d) : Len(d[i].rec.phones) <= MaxPhones

\* one call or command: r is its result, command tells a command of the loop
\* (an exception that leaves it ends the process) from a method call
Step(op, args, now, r, command) ==
  /\ ~crashed
  /\ Bounded(r.d)
  /\ data' = r.d
  /\ crashed' = (command /\ r.exc # "")
  /\ last' = [op |-> op, args |-> args, now |-> now, exc |-> r.exc, msg |-> r.msg,
              ret |-> r.ret, hadName |-> HadName(data, args),
              hadPhone |-> HadPhone(data, args)]
  /\ prev' = IF prev = Untracked THEN prev ELSE last
  /\ task' = task

-----------------------------------------------------------------------------
(* Method calls on the directory and on the records it holds *)

CallAddRecord(n) ==
  Step("add_record", <<n>>, None,
       Returned("", AddressBook_add_record(data, Record(n)), <<>>), FALSE)

CallDelete(n) ==
  Step("delete", <<n>>, None, Returned("", AddressBook_delete(data, n), <<>>), FALSE)

CallFind(n) ==
  Step("find", <<n>>, None,
       Returned("", data, IF AddressBook_find(data, n) = None THEN <<>> ELSE <<n>>),
       FALSE)

CallAddPhone(n, phone) ==
  /\ AddressBook_find(data, n) # None
  /\ LET r == Record_add_phone(AddressBook_find(data, n)[1], phone)
     IN Step("add_phone", <<n, phone>>, None,
             [exc |-> r.exc, msg |-> "", d |-> Mutated(data, n, r.rec), ret |-> <<>>],
             FALSE)

CallRemovePhone(n, phone) ==
  /\ AddressBook_find(data, n) # None
  /\ Step("remove_phone", <<n, phone>>, None,
          Returned("", Mutated(data, n,
                     Record_remove_phone(AddressBook_find(data, n)[1], phone)), <<>>),
          FALSE)

CallEditPhone(n, old_phone, new_phone) ==
  /\ AddressBook_find(data, n) # None
  /\ LET r == Record_edit_phone(AddressBook_find(data, n)[1], old_phone, new_phone)
     IN Step("edit_phone", <<n, old_phone, new_phone>>, None,
             [exc |-> r.exc, msg |-> "", d |-> Mutated(data, n, r.rec), ret |-> <<>>],
             FALSE)

CallFindPhone(n, phone) ==
  /\ AddressBook_find(data, n) # None
  /\ Step("find_phone", <<n, phone>>, None,
          Returned("", data, Record_find_phone(AddressBook_find(data, n)[1], phone)),
          FALSE)

-----------------------------------------------------------------------------
(* Task_1.py: the commands of main. An empty line typed for the birthday   *)
(* or for the number of days is <<>>.                                      *)

T1Add(n, phone, birthday) ==
  /\ task = 1
  /\ Step("add", <<n, phone, birthday>>, None,
          handle_add_contact(data, n, phone, birthday), TRUE)

T1List == task = 1 /\ Step("list", <<>>, None, handle_list_contacts(data), TRUE)

T1Get(n) == task = 1 /\ Step("get", <<n>>, None, handle_get_contact(data, n), TRUE)

T1Remove(n) ==
  task = 1 /\ Step("remove", <<n>>, None, handle_remove_contact(data, n), TRUE)

T1Edit(n, old_phone, new_phone) ==
  /\ task = 1
  /\ Step("edit", <<n, old_phone, new_phone>>, None,
          handle_edit_contact_phone(data, n, old_phone, new_phone), TRUE)

\* datetime.now() is read by get_upcoming_birthdays, after int(days)
T1Birthdays(days, today) ==
  /\ task = 1
  /\ Step("birthdays", IF days = <<>> THEN <<>> ELSE <<days>>,
          IF days # <<>> /\ IntParse(days) = None THEN None ELSE Some(today),
          main_birthdays(data, days, today), TRUE)

-----------------------------------------------------------------------------
(* Task_2.py: the commands of main; args is the split input line without   *)
(* the command word                                                        *)

T2Add(args) == task = 2 /\ Step("add", args, None, add_contact(args, data), TRUE)

T2Change(args) == task = 2 /\ Step("change", args, None, change_phone(args, data), TRUE)

T2Phone(args) == task = 2 /\ Step("phone", args, None, show_phone(args, data), TRUE)

T2All == task = 2 /\ Step("all", <<>>, None, list_contacts(<<>>, data), TRUE)

T2AddBirthday(args) ==
  task = 2 /\ Step("add-birthday", args, None, add_birthday(args, data), TRUE)

T2ShowBirthday(args) ==
  task = 2 /\ Step("show-birthday", args, None, show_birthday(args, data), TRUE)

T2Birthdays(args, today) ==
  /\ task = 2
  /\ Step("birthdays", args,
          IF args # <<>> /\ IntParse(args[1]) = None THEN None ELSE Some(today),
          birthdays(args, data, today), TRUE)

-----------------------------------------------------------------------------
(* Spec: the command loop of either program, and the directory's methods   *)

CommandPhones == {PhoneA, PhoneB, PhoneShort}
CommandBirthdays == {Day_29_02_2000, Day_31_02_2020}
CommandDays == {<<>>, <<"x">>}
CommandTodays ==
  {DateTime(2023, 12, 25, 1), DateTime(2024, 2, 22, 0)}

AddArgs ==
  {<<n>> : n \in Names}
    \cup {<<n, phone>> : n \in Names, phone \in CommandPhones}
    \cup {<<n, PhoneA, Day_29_02_2000>> : n \in Names}

ChangeArgs ==
  {<<n, PhoneA>> : n \in Names}
    \cup {<<n, old_phone, new_phone>> :
            n \in Names, old_phone \in {PhoneA, PhoneB}, new_phone \in CommandPhones}

NameArgs == {<<>>} \cup {<<n>> : n \in Names}

BirthdayArgs ==
  {<<n>> : n \in Names}
    \cup {<<n, birthday>> : n \in Names, birthday \in CommandBirthdays}

DaysArgs(inputs) == {IF days = <<>> THEN <<>> ELSE <<days>> : days \in inputs}

\* the program after book = AddressBook() in main
Init ==
  /\ task \in {1, 2}
  /\ data = <<>>
  /\ last = NoOp
  /\ prev = Untracked
  /\ crashed = FALSE

Next ==
  \/ \E n \in Names, phone \in CommandPhones, birthday \in CommandBirthdays \cup {<<>>} :
       T1Add(n, phone, birthday)
  \/ T1List
  \/ \E n \in Names : T1Get(n)
  \/ \E n \in Names : T1Remove(n)
  \/ \E n \in Names, old_phone \in {PhoneA, PhoneB}, new_phone \in CommandPhones :
       T1Edit(n, old_phone, new_phone)
  \/ \E days \in CommandDays, today \in CommandTodays : T1Birthdays(days, today)
  \/ \E args \in AddArgs : T2Add(args)
  \/ \E args \in ChangeArgs : T2Change(args)
  \/ \E args \in NameArgs : T2Phone(args)
  \/ T2All
  \/ \E args \in BirthdayArgs : T2AddBirthday(args)
  \/ \E args \in NameArgs : T2ShowBirthday(args)
  \/ \E args \in DaysArgs(CommandDays), today \in CommandTodays : T2Birthdays(args, today)
  \/ \E n \in Names : CallAddRecord(n)
  \/ \E n \in Names : CallDelete(n)

Spec == Init /\ [][Next]_vars

-----------------------------------------------------------------------------
(* SpecRecord: the methods of one Record of the directory called directly, *)
(* every call recorded with the call before it                             *)

RecordPhones == {PhoneA, PhoneB, PhoneArabic, PhoneShort, PhoneLong, PhoneLetter}
StoredPhones == {PhoneA, PhoneB}

InitRecord ==
  /\ task \in {1, 2}
  /\ data = <<>>
  /\ last = NoOp
  /\ prev = NoOp
  /\ crashed = FALSE

NextRecord ==
  \/ CallAddRecord(Alice)
  \/ CallDelete(Alice)
  \/ CallFind(Alice)
  \/ \E phone \in RecordPhones : CallAddPhone(Alice, phone)
  \/ \E phone \in StoredPhones : CallRemovePhone(Alice, phone)
  \/ \E old_phone \in StoredPhones, new_phone \in RecordPhones :
       CallEditPhone(Alice, old_phone, new_phone)
  \/ \E phone \in StoredPhones : CallFindPhone(Alice, phone)

SpecRecord == InitRecord /\ [][NextRecord]_vars

-----------------------------------------------------------------------------
(* SpecBirthdays: contacts with birthdays and the birthdays query of       *)
(* either program                                                          *)

QueryBirthdays == {Day_15_06_1990, Day_01_01_1995, Day_29_02_2000}
QueryDays == {<<>>, <<"0">>, <<"-", "1">>}
QueryTodays ==
  Instants({<<2024, 6, 8>>, <<2024, 6, 15>>, <<2024, 12, 28>>, <<2023, 6, 10>>})

NextBirthdays ==
  \/ \E n \in Names, birthday \in QueryBirthdays \cup {<<>>} : T1Add(n, PhoneA, birthday)
  \/ \E n \in Names : T1Remove(n)
  \/ \E days \in QueryDays, today \in QueryTodays : T1Birthdays(days, today)
  \/ \E n \in Names : T2Add(<<n, PhoneA>>)
  \/ \E n \in Names, birthday \in QueryBirthdays : T2AddBirthday(<<n, birthday>>)
  \/ \E args \in DaysArgs(QueryDays), today \in QueryTodays : T2Birthdays(args, today)

SpecBirthdays == Init /\ [][NextBirthdays]_vars

-----------------------------------------------------------------------------
(* Properties *)

\* exactly ten decimal digits and nothing else
TenDigits(s) == Len(s) = 10 /\ \A i \in 1..Len(s) : IsDecimal(s[i])

\* the records the directory d holds under the key n
RecordsOf(d, n) == { d[i].rec : i \in { j \in 1..Len(d) : d[j].key = n } }

\* the phone list of the one record d holds under n
PhonesOf(d, n) == (CHOOSE r \in RecordsOf(d, n) : TRUE).phones

Occurs(phones, v) == \E i \in 1..Len(phones) : phones[i] = v

\* the birthdays query returned its list (it did not raise)
QueryReturned == last.op = "birthdays" /\ last.msg \in {MsgUpcoming, MsgNoUpcoming}

\* the window of the last birthdays query
WindowOf(args) == IF args = <<>> THEN 7 ELSE IntParse(args[1])[1]

RetNames == { last.ret[i] : i \in 1..Len(last.ret) }

\* the names whose birthday, moved to the year of today, is one of the days
\* today, today + 1, ..., today + days
InWindow(d, today, days) ==
  { d[i].key : i \in { j \in 1..Len(d) :
      /\ d[j].rec.birthday # None
      /\ LET b == d[j].rec.birthday[1]
         IN /\ ValidDate(today.year, b.month, b.day)
            /\ ToOrdinal(today) <= ToOrdinal([b EXCEPT !.year = today.year])
            /\ ToOrdinal([b EXCEPT !.year = today.year]) <= ToOrdinal(today) + days } }

\* C1: a birthdays query with a window of days >= 0 returns exactly the
\* records whose birthday, projected onto the year of the reference, lies in
\* the closed interval of days [reference, reference + days]; a birthday on
\* the reference day itself is returned.
C1_ClosedWindow ==
  (QueryReturned /\ WindowOf(last.args) >= 0)
    => RetNames = InWindow(data, last.now[1], WindowOf(last.args))

\* C2: edit_phone with an old phone the record holds and a new phone that is
\* not ten digits raises ValueError and leaves the phone list as it was.
C2_EditAtomic ==
  [][(last'.op = "edit_phone" /\ last'.hadPhone /\ ~TenDigits(last'.args[3]))
       => (last'.exc = "ValueError"
           /\ PhonesOf(data', last'.args[1]) = PhonesOf(data, last'.args[1]))]_vars

\* C3: an add command that succeeds for a name already in the directory
\* keeps the record: its phones are the earlier phones with the new phone
\* appended, its birthday is retained unless the command sets one, and the
\* directory holds exactly one entry for the name.
C3_AddUpdates ==
  [][(/\ last'.op = "add" /\ last'.hadName
      /\ last'.msg \in {"Contact {name} added successfully.", "Contact updated."})
       => LET n == last'.args[1]
              old == CHOOSE r \in RecordsOf(data, n) : TRUE
          IN /\ Cardinality({ i \in 1..Len(data') : data'[i].key = n }) = 1
             /\ \A r \in RecordsOf(data', n) :
                  /\ r.phones = Append(old.phones, last'.args[2])
                  /\ (task = 2 \/ last'.args[3] = <<>>)
                       => r.birthday = old.birthday]_vars

\* C4: every command returns a text to the command loop; no exception
\* leaves a command and ends the process.
C4_NoCommandFatal == ~crashed

\* C5 as stated: after add_phone(v) with a valid v find_phone(v) returns a
\* phone of value v, and after a following remove_phone(v) find_phone(v)
\* returns None.
C5_AddFindRemove ==
  /\ (last.op = "add_phone" /\ last.exc = "")
       => \A r \in RecordsOf(data, last.args[1]) :
            Record_find_phone(r, last.args[2]) = Some(last.args[2])
  /\ (/\ last.op = "remove_phone"
      /\ prev.op = "add_phone" /\ prev.exc = "" /\ prev.args = last.args)
       => \A r \in RecordsOf(data, last.args[1]) :
            Record_find_phone(r, last.args[2]) = None

\* C5 amended: after add_phone(v) with a valid v find_phone(v) returns a
\* phone of value v; after a following remove_phone(v) find_phone(v) returns
\* None exactly when the record did not hold v before the add_phone, since
\* remove_phone removes one occurrence.
C5_AddFindRemoveOnce ==
  /\ (last.op = "add_phone" /\ last.exc = "")
       => \A r \in RecordsOf(data, last.args[1]) :
            Record_find_phone(r, last.args[2]) = Some(last.args[2])
  /\ (/\ last.op = "remove_phone"
      /\ prev.op = "add_phone" /\ prev.exc = "" /\ prev.args = last.args)
       => \A r \in RecordsOf(data, last.args[1]) :
            (Record_find_phone(r, last.args[2]) = None) <=> ~prev.hadPhone

\* add_phone(v), then remove_phone(v), on a record that already held v
C5_Witness ==
  /\ last.op = "remove_phone"
  /\ prev.op = "add_phone" /\ prev.exc = "" /\ prev.args = last.args
  /\ prev.hadPhone
  /\ Occurs(PhonesOf(data, last.args[1]), last.args[2])

\* C6: add_phone with a string that is not ten digits raises ValueError and
\* leaves the phone list unchanged, and every phone a record stores is a
\* ten-digit string.
C6_InvalidPhoneRejected ==
  /\ [][(last'.op = "add_phone" /\ ~TenDigits(last'.args[2]))
          => (last'.exc = "ValueError"
              /\ PhonesOf(data', last'.args[1]) = PhonesOf(data, last'.args[1]))]_vars
  /\ [](\A i \in 1..Len(data) :
          \A j \in 1..Len(data[i].rec.phones) : TenDigits(data[i].rec.phones[j]))

\* add_phone("12345") was refused on a record that holds a phone
C6_Witness ==
  /\ last.op = "add_phone" /\ last.args[2] = PhoneShort /\ last.exc = "ValueError"
  /\ PhonesOf(data, last.args[1]) # <<>>

\* C7: Phone(raw) succeeds exactly when raw is ten decimal digits and
\* nothing else, the stored value is then raw, and every other string
\* raises ValueError.
C7_PhoneParse ==
  (last.op = "add_phone")
    => IF TenDigits(last.args[2])
       THEN /\ last.exc = ""
            /\ PhonesOf(data, last.args[1]) # <<>>
            /\ PhonesOf(data, last.args[1])[Len(PhonesOf(data, last.args[1]))]
                 = last.args[2]
       ELSE last.exc = "ValueError"

\* an eleven-digit string was refused and then a ten-digit string stored
C7_Witness ==
  /\ prev.op = "add_phone" /\ prev.args[2] = PhoneLong /\ prev.exc = "ValueError"
  /\ last.op = "add_phone" /\ last.exc = "" /\ TenDigits(last.args[2])

\* C8: a birthdays query, whatever its window, returns no record whose
\* birthday month and day are earlier in the year than the reference date.
C8_NoRollover ==
  QueryReturned
    => \A n \in RetNames : \A r \in RecordsOf(data, n) :
         LET b == r.birthday[1]
             today == last.now[1]
         IN ~(\/ b.month < today.month
              \/ b.month = today.month /\ b.day < today.day)

\* a query on 28 December with a window of 7 days, a birthday on 1 January
\* in the directory, and that record not returned
C8_Witness ==
  /\ QueryReturned
  /\ last.args = <<>>
  /\ last.now[1].month = 12 /\ last.now[1].day = 28
  /\ \E i \in 1..Len(data) :
       /\ data[i].rec.birthday # None
       /\ data[i].rec.birthday[1].month = 1 /\ data[i].rec.birthday[1].day = 1
       /\ data[i].key \notin RetNames

KeysUnique(d) ==
  \A i, j \in 1..Len(d) : (d[i].key = d[j].key => i = j) /\ d[i].key = d[i].rec.name

\* C9: the directory holds at most one entry per name and each key is the
\* name of its record; add_record for a name already present replaces that
\* entry and does not change the number of entries.
C9_UniqueNames ==
  /\ KeysUnique(data)
  /\ [][/\ KeysUnique(data')
        /\ (last'.op = "add_record" /\ last'.hadName)
             => (/\ Len(data') = Len(data)
                 /\ RecordsOf(data', last'.args[1]) = {Record(last'.args[1])})
        /\ (/\ task = 1 /\ last'.op = "add" /\ last'.hadName
            /\ last'.msg = "Contact {name} added successfully.")
             => (/\ Len(data') = Len(data)
                 /\ \A r \in RecordsOf(data', last'.args[1]) :
                      r.phones = <<last'.args[2]>>)]_vars

\* add_record ran for a name that was a key, next to another entry
C9_Witness ==
  /\ last.op = "add_record" /\ last.hadName
  /\ Len(data) = 2

\* C10: an add command for a name not in the directory that returns a
\* validation message leaves no entry for that name.
C10_FailedAddLeavesNothing ==
  (/\ last.op = "add" /\ ~last.hadName /\ Len(last.args) >= 2
   /\ last.msg \in {MsgInvalidPhone, MsgInvalidDate})
    => RecordsOf(data, last.args[1]) = {}

====
